---- MODULE Spec2Model ----
(***************************************************************************)
(* notify-complete: run a command and send a desktop notification when it  *)
(* completes.  The model covers src/src/config.rs (profile lookup, config  *)
(* resolution, timeout and urgency parsing) and src/src/main.rs (the run). *)
(*                                                                         *)
(* Rust strings are modelled as sequences of one-character strings, so     *)
(* that parsing is computed character by character.  A u32 is modelled as  *)
(* its canonical sequence of decimal digits (no leading zero, <<0>> for    *)
(* zero), because its values exceed the integers TLC computes with.        *)
(***************************************************************************)
EXTENDS Integers, Sequences, FiniteSets, TLC

VARIABLES
    pc,            \* position of control of the operation being run
    argv,          \* the process's command line (std::env::args)
    file,          \* the configuration file on disk: [kind, doc]
    args,          \* the parsed command line (struct Args), or None
    profile_conf,  \* the Config selected from the profile, before overrides
    conf,          \* the Config value (`conf` in new_from and main), or None
    child,         \* state of the child process
    notifications, \* notifications handed to the transport, in order
    exit_status,   \* exit status of the run, None while it is running
    stderr,        \* diagnostics written so far
    call,          \* direct call of a function: [fn, ...arguments]
    ret            \* value returned by the direct call, or None

vars == <<pc, argv, file, args, profile_conf, conf, child, notifications,
          exit_status, stderr, call, ret>>

----------------------------------------------------------------------------
(* Option<T> *)

None == [some |-> FALSE]

Some(v) == [some |-> TRUE, v |-> v]

----------------------------------------------------------------------------
(* String literals of the program and of its tests *)

s_empty == <<>>

s_default == <<"d","e","f","a","u","l","t">>

s_never == <<"n","e","v","e","r">>

s_low == <<"l","o","w">>

s_normal == <<"n","o","r","m","a","l">>

s_critical == <<"c","r","i","t","i","c","a","l">>

s_command_completed ==
    <<"C","o","m","m","a","n","d"," ","c","o","m","p","l","e","t","e","d">>

s_notify_complete ==
    <<"n","o","t","i","f","y","-","c","o","m","p","l","e","t","e">>

----------------------------------------------------------------------------
(* notify_rust::Timeout and notify_rust::Urgency *)

TimeoutDefault == [tag |-> "Default"]

TimeoutNever == [tag |-> "Never"]

Milliseconds(ms) == [tag |-> "Milliseconds", ms |-> ms]

UrgencyLow == "Low"

UrgencyNormal == "Normal"

UrgencyCritical == "Critical"

Urgency == {UrgencyLow, UrgencyNormal, UrgencyCritical}

----------------------------------------------------------------------------
(* str::parse::<u32>() *)

DecimalChars == <<"0","1","2","3","4","5","6","7","8","9">>

is_digit(c) == \E d \in 1..10 : DecimalChars[d] = c

to_digit(c) == (CHOOSE d \in 1..10 : DecimalChars[d] = c) - 1

\* u32::MAX = 4294967295, as decimal digits
U32_MAX == <<4,2,9,4,9,6,7,2,9,5>>

RECURSIVE digits_le(_, _)
\* a <= b for two digit sequences of the same length
digits_le(a, b) ==
    IF a = <<>> THEN TRUE
    ELSE IF Head(a) # Head(b) THEN Head(a) < Head(b)
    ELSE digits_le(Tail(a), Tail(b))

\* result.checked_mul(10) then checked_add(d): None on overflow of u32
checked_mul10_add(acc, d) ==
    LET r == IF acc = <<0>> THEN <<d>> ELSE Append(acc, d)
    IN  IF Len(r) < Len(U32_MAX) \/ (Len(r) = Len(U32_MAX) /\ digits_le(r, U32_MAX))
        THEN Some(r)
        ELSE None

RECURSIVE from_digits(_, _)
\* the digit loop of from_str_radix: Err on a non-digit or on overflow
from_digits(acc, s) ==
    IF s = <<>> THEN Some(acc)
    ELSE IF ~is_digit(Head(s)) THEN None
    ELSE LET r == checked_mul10_add(acc, to_digit(Head(s)))
         IN  IF r.some THEN from_digits(r.v, Tail(s)) ELSE None

\* "…".parse::<u32>(): Some(value) for Ok, None for Err.  An empty string is
\* an error; one leading '+' is accepted, a lone sign or a '-' is an error.
parse_u32(s) ==
    IF s = <<>> THEN None
    ELSE LET body == IF Head(s) = "+" THEN Tail(s) ELSE s
         IN  IF body = <<>> THEN None ELSE from_digits(<<0>>, body)

----------------------------------------------------------------------------
(* Config::parse_timeout and Config::parse_urgency *)

default_timeout == TimeoutDefault

default_urgency == UrgencyNormal

\* parse_timeout without its "never" arm
parse_timeout_without_never(timeout) ==
    IF timeout = s_default THEN TimeoutDefault
    ELSE LET r == parse_u32(timeout)
         IN  IF r.some THEN Milliseconds(r.v) ELSE TimeoutDefault

parse_timeout(timeout) ==
    IF timeout = s_default THEN TimeoutDefault
    ELSE IF timeout = s_never THEN TimeoutNever
    ELSE LET r == parse_u32(timeout)
         IN  IF r.some THEN Milliseconds(r.v) ELSE TimeoutDefault

\* the eprintln! of parse_timeout is reached
parse_timeout_error(timeout) ==
    timeout # s_default /\ timeout # s_never /\ ~parse_u32(timeout).some

UpperCase == <<"A","B","C","D","E","F","G","H","I","J","K","L","M",
               "N","O","P","Q","R","S","T","U","V","W","X","Y","Z">>

LowerCase == <<"a","b","c","d","e","f","g","h","i","j","k","l","m",
               "n","o","p","q","r","s","t","u","v","w","x","y","z">>

to_ascii_lowercase(s) ==
    [i \in 1..Len(s) |->
        IF \E k \in 1..26 : UpperCase[k] = s[i]
        THEN LowerCase[CHOOSE k \in 1..26 : UpperCase[k] = s[i]]
        ELSE s[i]]

\* parse_urgency matching its argument without regard to case
parse_urgency_ignoring_case(urgency) ==
    LET u == to_ascii_lowercase(urgency)
    IN  IF u = s_low THEN UrgencyLow
        ELSE IF u = s_normal THEN UrgencyNormal
        ELSE IF u = s_critical THEN UrgencyCritical
        ELSE UrgencyNormal

parse_urgency(urgency) ==
    IF urgency = s_low THEN UrgencyLow
    ELSE IF urgency = s_normal THEN UrgencyNormal
    ELSE IF urgency = s_critical THEN UrgencyCritical
    ELSE UrgencyNormal

\* the eprintln! of parse_urgency is reached
parse_urgency_error(urgency) ==
    urgency \notin {s_low, s_normal, s_critical}

----------------------------------------------------------------------------
(* struct Config and its defaults *)

default_icon == s_empty

default_message == s_empty

default_title == s_command_completed

default_command == <<>>

default_config ==
    [icon    |-> default_icon,
     message |-> default_message,
     timeout |-> default_timeout,
     title   |-> default_title,
     urgency |-> default_urgency,
     command |-> default_command]

----------------------------------------------------------------------------
(* Profiles of the configuration file *)

\* char::is_whitespace, for the characters the model uses
is_whitespace(c) == c \in {" ", "\t", "\n"}

RECURSIVE split_whitespace(_, _, _)
\* str::split_whitespace: the maximal runs of non-whitespace characters, in
\* order; `word` is the run being read and `out` the runs already complete
split_whitespace(s, word, out) ==
    IF s = <<>> THEN (IF word = <<>> THEN out ELSE Append(out, word))
    ELSE IF is_whitespace(Head(s))
         THEN split_whitespace(Tail(s), <<>>,
                               IF word = <<>> THEN out ELSE Append(out, word))
         ELSE split_whitespace(Tail(s), Append(word, Head(s)), out)

parse_command(command) == split_whitespace(command, <<>>, <<>>)

from_toml_profile(profile) ==
    [icon    |-> IF profile.icon.some THEN profile.icon.v ELSE default_icon,
     message |-> IF profile.message.some THEN profile.message.v
                 ELSE default_message,
     timeout |-> IF profile.timeout.some THEN parse_timeout(profile.timeout.v)
                 ELSE default_timeout,
     title   |-> IF profile.title.some THEN profile.title.v ELSE default_title,
     urgency |-> IF profile.urgency.some THEN parse_urgency(profile.urgency.v)
                 ELSE default_urgency,
     command |-> IF profile.command.some THEN parse_command(profile.command.v)
                 ELSE default_command]

\* the diagnostics from_toml_profile writes through the two parsers
from_toml_profile_errors(profile) ==
    (IF profile.timeout.some /\ parse_timeout_error(profile.timeout.v)
     THEN <<"Error parsing timeout value">> ELSE <<>>)
    \o
    (IF profile.urgency.some /\ parse_urgency_error(profile.urgency.v)
     THEN <<"Invalid urgency value">> ELSE <<>>)

RECURSIVE last_match(_, _)
\* first_match returning the last profile of that name instead
last_match(profile, profiles) ==
    IF profiles = <<>> THEN None
    ELSE LET rest == last_match(profile, Tail(profiles))
         IN  IF rest.some THEN rest
             ELSE IF profile = Head(profiles).name THEN Some(Head(profiles))
             ELSE None

RECURSIVE first_match(_, _)
\* the for loop of from_toml: the first profile of the list, in document
\* order, whose name is the requested one; None when the loop falls through
first_match(profile, profiles) ==
    IF profiles = <<>> THEN None
    ELSE IF profile = Head(profiles).name THEN Some(Head(profiles))
    ELSE first_match(profile, Tail(profiles))

\* from_toml falling back to the profile declared as "default" when the
\* requested one is not declared
from_toml_default_profile(profile, toml) ==
    IF ~toml.profile.some THEN default_config
    ELSE LET m == first_match(profile, toml.profile.v)
             d == first_match(s_default, toml.profile.v)
         IN  IF m.some THEN from_toml_profile(m.v)
             ELSE IF d.some THEN from_toml_profile(d.v)
             ELSE default_config

from_toml(profile, toml) ==
    IF ~toml.profile.some THEN default_config
    ELSE LET m == first_match(profile, toml.profile.v)
         IN  IF m.some THEN from_toml_profile(m.v) ELSE default_config

from_toml_errors(profile, toml) ==
    IF ~toml.profile.some THEN <<>>
    ELSE LET m == first_match(profile, toml.profile.v)
         IN  IF m.some THEN from_toml_profile_errors(m.v) ELSE <<>>

----------------------------------------------------------------------------
(* The command line: struct Args (clap derive, TrailingVarArg) *)

f_p == <<"-","p">>

f_profile == <<"-","-","p","r","o","f","i","l","e">>

f_t == <<"-","t">>

f_title == <<"-","-","t","i","t","l","e">>

f_m == <<"-","m">>

f_message == <<"-","-","m","e","s","s","a","g","e">>

f_o == <<"-","o">>

f_timeout == <<"-","-","t","i","m","e","o","u","t">>

f_u == <<"-","u">>

f_urgency == <<"-","-","u","r","g","e","n","c","y">>

\* the field an option token sets, "" when the token is no option of Args
option_field(tok) ==
    IF tok \in {f_p, f_profile} THEN "profile"
    ELSE IF tok \in {f_t, f_title} THEN "title"
    ELSE IF tok \in {f_m, f_message} THEN "message"
    ELSE IF tok \in {f_o, f_timeout} THEN "timeout"
    ELSE IF tok \in {f_u, f_urgency} THEN "urgency"
    ELSE ""

starts_with_hyphen(tok) == tok # <<>> /\ Head(tok) = "-"

\* struct Args before any token is read; `profile` gets its default_value
\* at the end of parsing
empty_args ==
    [profile |-> None, title |-> None, message |-> None, timeout |-> None,
     urgency |-> None, command |-> <<>>]

RECURSIVE parse_tokens(_, _)
\* clap's token loop for this grammar, on command lines written with
\* separate option and value tokens (no `--opt=value`, no `--`): options
\* are read until the first positional token; from there on every token,
\* flag-like or not, belongs to the command (TrailingVarArg).  None is a
\* usage error: an option without value, an option given twice, a value or
\* an unknown token that starts with a hyphen.
parse_tokens(tokens, acc) ==
    IF tokens = <<>> THEN Some(acc)
    ELSE LET tok == Head(tokens)
             field == option_field(tok)
         IN  IF field # ""
             THEN IF Len(tokens) < 2 \/ starts_with_hyphen(tokens[2])
                     \/ acc[field].some
                  THEN None
                  ELSE parse_tokens(SubSeq(tokens, 3, Len(tokens)),
                                    [acc EXCEPT ![field] = Some(tokens[2])])
             ELSE IF starts_with_hyphen(tok) THEN None
             ELSE Some([acc EXCEPT !.command = tokens])

\* Args::try_parse_from: Some(args) for Ok, None for Err.  The command is
\* `required = true`: a command line without one is an error.
try_parse_from(arguments) ==
    LET r == parse_tokens(Tail(arguments), empty_args)
    IN  IF ~r.some \/ r.v.command = <<>> THEN None
        ELSE Some([r.v EXCEPT !.profile =
                       IF r.v.profile.some THEN r.v.profile.v ELSE s_default])

----------------------------------------------------------------------------
(* Config::new_from, update_conf_from_args, read_config_file *)

\* lines 81-90 of new_from: the Config taken from the configuration file
new_from_profile(a, toml_config) ==
    IF toml_config.some
    THEN IF ~toml_config.v.profile.some THEN default_config
         ELSE from_toml(a.profile, toml_config.v)
    ELSE default_config

new_from_profile_errors(a, toml_config) ==
    IF toml_config.some THEN from_toml_errors(a.profile, toml_config.v)
    ELSE <<>>

\* the diagnostics of the two parsers applied to the overrides
override_errors(a) ==
    (IF a.timeout.some /\ parse_timeout_error(a.timeout.v)
     THEN <<"Error parsing timeout value">> ELSE <<>>)
    \o
    (IF a.urgency.some /\ parse_urgency_error(a.urgency.v)
     THEN <<"Invalid urgency value">> ELSE <<>>)

\* new_from with the message override stored into the title
\* (the assignment of the title block repeated in the message block)
new_from_message_into_title(a, toml_config) ==
    LET c0 == new_from_profile(a, toml_config)
        c1 == IF a.title.some THEN [c0 EXCEPT !.title = a.title.v] ELSE c0
        c2 == IF a.message.some THEN [c1 EXCEPT !.title = a.message.v]
              ELSE c1
        c3 == IF a.timeout.some
              THEN [c2 EXCEPT !.timeout = parse_timeout(a.timeout.v)] ELSE c2
        c4 == IF a.urgency.some
              THEN [c3 EXCEPT !.urgency = parse_urgency(a.urgency.v)] ELSE c3
    IN  [c4 EXCEPT !.command = a.command]

\* new_from without its last assignment, conf.command = args.command
new_from_keeping_profile_command(a, toml_config) ==
    LET c0 == new_from_profile(a, toml_config)
        c1 == IF a.title.some THEN [c0 EXCEPT !.title = a.title.v] ELSE c0
        c2 == IF a.message.some THEN [c1 EXCEPT !.message = a.message.v]
              ELSE c1
        c3 == IF a.timeout.some
              THEN [c2 EXCEPT !.timeout = parse_timeout(a.timeout.v)] ELSE c2
        c4 == IF a.urgency.some
              THEN [c3 EXCEPT !.urgency = parse_urgency(a.urgency.v)] ELSE c3
    IN  c4

\* Config::new_from for a command line that clap accepts as `a`
new_from(a, toml_config) ==
    LET c0 == new_from_profile(a, toml_config)
        c1 == IF a.title.some THEN [c0 EXCEPT !.title = a.title.v] ELSE c0
        c2 == IF a.message.some THEN [c1 EXCEPT !.message = a.message.v]
              ELSE c1
        c3 == IF a.timeout.some
              THEN [c2 EXCEPT !.timeout = parse_timeout(a.timeout.v)] ELSE c2
        c4 == IF a.urgency.some
              THEN [c3 EXCEPT !.urgency = parse_urgency(a.urgency.v)] ELSE c3
    IN  [c4 EXCEPT !.command = a.command]

update_conf_from_args(c0, a) ==
    LET c1 == IF a.title.some THEN [c0 EXCEPT !.title = a.title.v] ELSE c0
        c2 == IF a.message.some THEN [c1 EXCEPT !.message = a.message.v]
              ELSE c1
        c3 == IF a.timeout.some
              THEN [c2 EXCEPT !.timeout = parse_timeout(a.timeout.v)] ELSE c2
        c4 == IF a.urgency.some
              THEN [c3 EXCEPT !.urgency = parse_urgency(a.urgency.v)] ELSE c3
    IN  c4

\* the file is absent (not a file), unreadable, malformed, or holds the
\* document file.doc
read_config_file(f) ==
    IF f.kind = "ok" THEN Some(f.doc) ELSE None

read_config_file_errors(f) ==
    IF f.kind = "unreadable" THEN <<"Error reading config file">>
    ELSE IF f.kind = "malformed" THEN <<"Error parsing config file">>
    ELSE <<>>

----------------------------------------------------------------------------
(* Values left alone by an operation that does not use them *)

NoFile == [kind |-> "absent", doc |-> [profile |-> None]]

NoCall == [fn |-> "none"]

NoChild == [state |-> "none"]

----------------------------------------------------------------------------
(* SpecParse: direct calls of the two value parsers, as the tests of       *)
(* value_parsing_tests make them, and of the two places that apply them:   *)
(* from_toml_profile (profile values) and update_conf_from_args            *)
(* (command-line overrides).                                               *)

MaxLen == 3

ParseAlphabet == {"0", "7", "+", "-", "a", " "}

BoundedStrings == UNION {[1..n -> ParseAlphabet] : n \in 0..MaxLen}

s_3000 == <<"3","0","0","0">>

s_5000 == <<"5","0","0","0">>

s_minus_1 == <<"-","1">>

s_invalid == <<"i","n","v","a","l","i","d">>

s_u32_max == <<"4","2","9","4","9","6","7","2","9","5">>

s_u32_max_plus_1 == <<"4","2","9","4","9","6","7","2","9","6">>

SampleStrings ==
    {s_default, s_never, s_low, s_normal, s_critical, s_3000, s_5000,
     s_minus_1, s_invalid, s_u32_max, s_u32_max_plus_1,
     <<"D","e","f","a","u","l","t">>, <<"N","E","V","E","R">>,
     <<"L","o","w">>, <<"L","O","W">>, <<"N","o","r","m","a","l">>,
     <<"C","r","i","t","i","c","a","l">>, <<"l","o","w"," ">>,
     <<"4","2","9","4","9","6","7","3","0","0">>,
     <<"3","9","9","9","9","9","9","9","9","9">>,
     <<"5","0","0","0","0","0","0","0","0","0">>,
     <<"1","0","0","0","0","0","0","0","0","0","0">>,
     <<"0","0","0","0","0","0","0","0","0","0","0","5">>,
     <<"+","4","2","9","4","9","6","7","2","9","5">>,
     <<"-","0">>, <<"1","2",".","5">>, <<"0","x","1","0">>,
     <<"5","0","0","m","s">>, <<"1","e","3">>}

ParseStrings == BoundedStrings \cup SampleStrings

\* a TomlProfile whose only declared fields are timeout and urgency
profile_with(timeout, urgency) ==
    [name |-> <<"t","e","s","t">>, icon |-> None, message |-> None,
     timeout |-> timeout, title |-> None, urgency |-> urgency,
     command |-> None]

\* an Args whose only overrides are timeout and urgency
args_with(timeout, urgency) ==
    [profile |-> s_default, title |-> None, message |-> None,
     timeout |-> timeout, urgency |-> urgency,
     command |-> << <<"t","r","u","e">> >>]

InitParse ==
    /\ pc = "call"
    /\ call \in {[fn |-> "none", arg |-> s] : s \in ParseStrings}
    /\ ret = None
    /\ argv = <<>>
    /\ file = NoFile
    /\ args = None
    /\ profile_conf = None
    /\ conf = None
    /\ child = NoChild
    /\ notifications = <<>>
    /\ exit_status = None
    /\ stderr = <<>>

CallParseTimeout ==
    /\ pc = "call"
    /\ call' = [call EXCEPT !.fn = "parse_timeout"]
    /\ ret' = Some(parse_timeout(call.arg))
    /\ stderr' = IF parse_timeout_error(call.arg)
                 THEN Append(stderr, "Error parsing timeout value")
                 ELSE stderr
    /\ pc' = "returned"
    /\ UNCHANGED <<argv, file, args, profile_conf, conf, child, notifications,
                   exit_status>>

CallParseUrgency ==
    /\ pc = "call"
    /\ call' = [call EXCEPT !.fn = "parse_urgency"]
    /\ ret' = Some(parse_urgency(call.arg))
    /\ stderr' = IF parse_urgency_error(call.arg)
                 THEN Append(stderr, "Invalid urgency value")
                 ELSE stderr
    /\ pc' = "returned"
    /\ UNCHANGED <<argv, file, args, profile_conf, conf, child, notifications,
                   exit_status>>

\* from_toml_profile on a profile that declares timeout = urgency = arg
CallFromTomlProfile ==
    /\ pc = "call"
    /\ call' = [call EXCEPT !.fn = "from_toml_profile"]
    /\ LET p == profile_with(Some(call.arg), Some(call.arg))
       IN  /\ ret' = Some(from_toml_profile(p))
           /\ stderr' = stderr \o from_toml_profile_errors(p)
    /\ pc' = "returned"
    /\ UNCHANGED <<argv, file, args, profile_conf, conf, child, notifications,
                   exit_status>>

\* update_conf_from_args on the default Config, with the overrides
\* --timeout arg --urgency arg
CallUpdateConfFromArgs ==
    /\ pc = "call"
    /\ call' = [call EXCEPT !.fn = "update_conf_from_args"]
    /\ LET a == args_with(Some(call.arg), Some(call.arg))
       IN  /\ ret' = Some(update_conf_from_args(default_config, a))
           /\ stderr' = stderr \o override_errors(a)
    /\ pc' = "returned"
    /\ UNCHANGED <<argv, file, args, profile_conf, conf, child, notifications,
                   exit_status>>

NextParse ==
    \/ CallParseTimeout
    \/ CallParseUrgency
    \/ CallFromTomlProfile
    \/ CallUpdateConfFromArgs

SpecParse == InitParse /\ [][NextParse]_vars

----------------------------------------------------------------------------
(* Timeout and urgency parsing (C9, C10) *)

\* the value a decimal digit character stands for
DigitValue(c) ==
    CASE c = "0" -> 0 [] c = "1" -> 1 [] c = "2" -> 2 [] c = "3" -> 3
      [] c = "4" -> 4 [] c = "5" -> 5 [] c = "6" -> 6 [] c = "7" -> 7
      [] c = "8" -> 8 [] c = "9" -> 9

\* s without one leading plus sign
Unsigned(s) ==
    IF s # <<>> /\ s[1] = "+" THEN SubSeq(s, 2, Len(s)) ELSE s

\* s is the decimal notation of a non-negative integer: one or more decimal
\* digits, optionally after one plus sign
IsNonNegativeInteger(s) ==
    /\ Unsigned(s) # <<>>
    /\ \A i \in 1..Len(Unsigned(s)) :
          Unsigned(s)[i] \in {"0","1","2","3","4","5","6","7","8","9"}

\* the number of zeros that can be dropped in front of the digits b
LeadingZeros(b) ==
    CHOOSE k \in 0..(Len(b) - 1) :
        /\ \A i \in 1..k : b[i] = "0"
        /\ b[k + 1] # "0" \/ k = Len(b) - 1

\* the integer s denotes, as its digits without leading zeros
IntegerOf(s) ==
    LET b == Unsigned(s)
        k == LeadingZeros(b)
    IN  [i \in 1..(Len(b) - k) |-> DigitValue(b[k + i])]

\* the integer with digits d is at most u32::MAX
WithinU32(d) ==
    \/ Len(d) < Len(U32_MAX)
    \/ /\ Len(d) = Len(U32_MAX)
       /\ \/ d = U32_MAX
          \/ \E i \in 1..Len(d) :
                /\ d[i] < U32_MAX[i]
                /\ \A j \in 1..(i - 1) : d[j] = U32_MAX[j]

\* the mapping of timeout strings
TimeoutOf(s) ==
    IF s = s_default THEN TimeoutDefault
    ELSE IF s = s_never THEN TimeoutNever
    ELSE IF IsNonNegativeInteger(s) /\ WithinU32(IntegerOf(s))
         THEN Milliseconds(IntegerOf(s))
    ELSE TimeoutDefault

\* the timeout a direct call returned
ReturnedTimeout ==
    IF call.fn = "parse_timeout" THEN ret.v ELSE ret.v.timeout

\* the urgency a direct call returned
ReturnedUrgency ==
    IF call.fn = "parse_urgency" THEN ret.v ELSE ret.v.urgency

\* C9: timeout parsing is total and follows the mapping for every string:
\* "default" gives Default, "never" gives Never, the notation of a
\* non-negative integer n within u32 gives Milliseconds(n), every other
\* string gives Default; parse_timeout itself, the parsing of a profile's
\* timeout and the parsing of a --timeout override all give this value.
TheoremC9 ==
    (pc = "returned" /\ call.fn # "parse_urgency") =>
        /\ ret.some
        /\ ReturnedTimeout = TimeoutOf(call.arg)
        /\ call.arg = s_3000 => ReturnedTimeout = Milliseconds(<<3,0,0,0>>)
        /\ call.arg = s_minus_1 => ReturnedTimeout = TimeoutDefault

\* parse_timeout has returned Milliseconds(u32::MAX) for "4294967295"
WitnessC9 ==
    /\ pc = "returned"
    /\ call.fn = "parse_timeout"
    /\ call.arg = s_u32_max
    /\ ret = Some(Milliseconds(U32_MAX))

\* the mapping of urgency strings
UrgencyOf(s) ==
    CASE s = <<"l","o","w">> -> UrgencyLow
      [] s = <<"c","r","i","t","i","c","a","l">> -> UrgencyCritical
      [] OTHER -> UrgencyNormal

\* C10: urgency parsing is total and case-sensitive: "low" gives Low,
\* "normal" gives Normal, "critical" gives Critical and every other string,
\* "Low" included, gives Normal.
TheoremC10 ==
    (pc = "returned" /\ call.fn # "parse_timeout") =>
        /\ ret.some
        /\ ReturnedUrgency \in Urgency
        /\ ReturnedUrgency = UrgencyOf(call.arg)

\* parse_urgency has returned Normal for "Low"
WitnessC10 ==
    /\ pc = "returned"
    /\ call.fn = "parse_urgency"
    /\ call.arg = <<"L","o","w">>
    /\ ret = Some(UrgencyNormal)

----------------------------------------------------------------------------
(* SpecLookup: direct calls of Config::from_toml, as the tests of          *)
(* toml_tests make them, on configurations of up to MaxProfiles profiles.  *)

MaxProfiles == 2

s_test == <<"t","e","s","t">>

s_work == <<"w","o","r","k">>

s_does_not_exist == <<"d","o","e","s"," ","n","o","t"," ","e","x","i","s","t">>

s_icon == <<"i","c","o","n">>

s_message == <<"m","e","s","s","a","g","e">>

s_title == <<"t","i","t","l","e">>

s_other == <<"o","t","h","e","r">>

s_echo_hello == <<"e","c","h","o"," ","h","e","l","l","o">>

ProfileNames == {s_default, s_test, s_work}

\* the declared fields of a profile: none (profile_defaults), all (profile_values),
\* some, and some with values the parsers reject
ProfileFields ==
    {[icon |-> None, message |-> None, timeout |-> None, title |-> None,
      urgency |-> None, command |-> None],
     [icon |-> Some(s_icon), message |-> Some(s_message),
      timeout |-> Some(s_5000), title |-> Some(s_title),
      urgency |-> Some(s_critical), command |-> Some(s_echo_hello)],
     [icon |-> None, message |-> None, timeout |-> Some(s_never),
      title |-> Some(s_other), urgency |-> Some(s_low), command |-> None],
     [icon |-> None, message |-> Some(s_empty), timeout |-> Some(s_minus_1),
      title |-> None, urgency |-> Some(<<"L","o","w">>), command |-> None]}

TomlProfiles ==
    {[name |-> n, icon |-> f.icon, message |-> f.message,
      timeout |-> f.timeout, title |-> f.title, urgency |-> f.urgency,
      command |-> f.command] : n \in ProfileNames, f \in ProfileFields}

\* TomlConfig: no `profile` key, or a list of up to MaxProfiles profiles
TomlConfigs ==
    {[profile |-> None]} \cup
    {[profile |-> Some(l)] :
        l \in UNION {[1..n -> TomlProfiles] : n \in 0..MaxProfiles}}

InitLookup ==
    /\ pc = "call"
    /\ call \in {[fn |-> "none", profile |-> n, toml |-> tc] :
                    n \in ProfileNames \cup {s_does_not_exist},
                    tc \in TomlConfigs}
    /\ ret = None
    /\ argv = <<>>
    /\ file = NoFile
    /\ args = None
    /\ profile_conf = None
    /\ conf = None
    /\ child = NoChild
    /\ notifications = <<>>
    /\ exit_status = None
    /\ stderr = <<>>

CallFromToml ==
    /\ pc = "call"
    /\ call' = [call EXCEPT !.fn = "from_toml"]
    /\ ret' = Some(from_toml(call.profile, call.toml))
    /\ stderr' = stderr \o from_toml_errors(call.profile, call.toml)
    /\ pc' = "returned"
    /\ UNCHANGED <<argv, file, args, profile_conf, conf, child, notifications,
                   exit_status>>

NextLookup == CallFromToml

SpecLookup == InitLookup /\ [][NextLookup]_vars

----------------------------------------------------------------------------
(* Profile lookup (C6, C7) *)

\* the profiles a TomlConfig declares, in document order
Declared(toml) == IF toml.profile.some THEN toml.profile.v ELSE <<>>

\* the positions at which toml declares a profile named name
Declarations(name, toml) ==
    {i \in 1..Len(Declared(toml)) : Declared(toml)[i].name = name}

\* the Config with the built-in default values
BuiltInDefaults ==
    [icon |-> <<>>, message |-> <<>>, timeout |-> [tag |-> "Default"],
     title |-> s_command_completed, urgency |-> "Normal", command |-> <<>>]

\* the maximum of a non-empty set of positions
Last(S) == CHOOSE i \in S : \A j \in S : j <= i

\* the minimum of a non-empty set of positions
First(S) == CHOOSE i \in S : \A j \in S : i <= j

\* C6 as stated: a lookup of a name that no profile declares returns the
\* profile declared as "default" when there is one, and the built-in
\* defaults only when there is none.
ClaimC6 ==
    (pc = "returned" /\ Declarations(call.profile, call.toml) = {}) =>
        IF Declarations(s_default, call.toml) # {}
        THEN \E i \in Declarations(s_default, call.toml) :
                ret = Some(from_toml_profile(Declared(call.toml)[i]))
        ELSE ret = Some(BuiltInDefaults)

\* C6, amended: a lookup of a name that no profile declares never fails and
\* returns the built-in defaults, whether or not the configuration declares
\* a profile named "default".
TheoremC6 ==
    (pc = "returned" /\ Declarations(call.profile, call.toml) = {}) =>
        ret = Some(BuiltInDefaults)

\* an undeclared name has been looked up in a configuration whose "default"
\* profile differs from the built-in defaults
WitnessC6 ==
    /\ pc = "returned"
    /\ call.profile = s_does_not_exist
    /\ \E i \in Declarations(s_default, call.toml) :
          from_toml_profile(Declared(call.toml)[i]) # BuiltInDefaults
    /\ ret = Some(BuiltInDefaults)

\* C7 as stated: a lookup of a name that several profiles declare returns
\* the values of the last of them in document order.
ClaimC7 ==
    (pc = "returned" /\ Cardinality(Declarations(call.profile, call.toml)) >= 2) =>
        ret = Some(from_toml_profile(
                  Declared(call.toml)[Last(Declarations(call.profile, call.toml))]))

\* C7, amended: a lookup of a name that several profiles declare returns
\* the values of the first of them in document order.
TheoremC7 ==
    (pc = "returned" /\ Cardinality(Declarations(call.profile, call.toml)) >= 2) =>
        ret = Some(from_toml_profile(
                  Declared(call.toml)[First(Declarations(call.profile, call.toml))]))

\* a name declared twice, with different values, has been looked up
WitnessC7 ==
    /\ pc = "returned"
    /\ Cardinality(Declarations(call.profile, call.toml)) >= 2
    /\ \E i, j \in Declarations(call.profile, call.toml) :
          /\ i < j
          /\ from_toml_profile(Declared(call.toml)[i])
                # from_toml_profile(Declared(call.toml)[j])
          /\ ret = Some(from_toml_profile(Declared(call.toml)[i]))

----------------------------------------------------------------------------
(* get_config: called by main, defined in no file of src/.  Modelled from  *)
(* the specification of ProfileStore: load, then lookup.                    *)

\* load: the store maps every declared name to the profile of its last
\* declaration, each omitted field at its built-in default; a source that
\* is absent, unreadable or malformed declares nothing
load(f) ==
    LET toml == read_config_file(f)
        profiles == IF toml.some /\ toml.v.profile.some
                    THEN toml.v.profile.v ELSE <<>>
        names == {profiles[i].name : i \in 1..Len(profiles)}
    IN  [n \in names |->
            LET i == CHOOSE i \in 1..Len(profiles) :
                        /\ profiles[i].name = n
                        /\ \A j \in (i + 1)..Len(profiles) : profiles[j].name # n
            IN  from_toml_profile(profiles[i])]

\* lookup: the stored profile of that name, otherwise the "default"
\* profile, which is the built-in defaults when never declared
lookup(store, name) ==
    IF name \in DOMAIN store THEN store[name]
    ELSE IF s_default \in DOMAIN store THEN store[s_default]
    ELSE default_config

get_config(profile, f) == lookup(load(f), profile)

get_config_errors(profile, f) ==
    read_config_file_errors(f) \o
    (IF profile \in DOMAIN load(f) THEN <<>> ELSE <<"Unknown profile">>)

----------------------------------------------------------------------------
(* The command lines and configuration files of the model *)

s_sleep == <<"s","l","e","e","p">>

s_1 == <<"1">>

s_fake_cmd == <<"f","a","k","e","-","c","m","d">>

s_option == <<"-","-","o","p","t","i","o","n">>

s_yes == <<"y","e","s">>

s_echo == <<"e","c","h","o">>

s_unit_test == <<"U","n","i","t"," ","t","e","s","t">>

s_soon == <<"s","o","o","n">>

\* command lines: the program name, then the options, then the command
ArgvsOf(P, T, M, O, U, C) ==
    {<<s_notify_complete>> \o p \o t \o m \o o \o u \o c :
        p \in P, t \in T, m \in M, o \in O, u \in U, c \in C}

\* the commands: none (args_no_cmd), `sleep 1` (default_values), a command
\* with a flag-like argument (args_all) and one whose argument is spelled
\* like an option of Args
Commands ==
    {<<>>, <<s_sleep, s_1>>, <<s_fake_cmd, s_option, s_yes>>,
     <<s_echo, f_t, s_other>>}

Argvs ==
    ArgvsOf({<<>>, <<f_p, s_test>>, <<f_profile, s_default>>,
             <<f_p, s_does_not_exist>>},
            {<<>>, <<f_t, s_unit_test>>},
            {<<>>, <<f_message, s_message>>},
            {<<>>, <<f_o, s_never>>, <<f_timeout, s_3000>>, <<f_o, s_soon>>},
            {<<>>, <<f_u, s_low>>, <<f_urgency, <<"L","o","w">> >>},
            Commands)

\* the profiles of the configuration files: all fields declared, or some
ConfigProfiles ==
    {p \in TomlProfiles :
        /\ p.name \in {s_default, s_test}
        /\ p.title \in {Some(s_title), Some(s_other)}}

ConfigDocs ==
    {[profile |-> None]} \cup
    {[profile |-> Some(l)] :
        l \in UNION {[1..n -> ConfigProfiles] : n \in 0..MaxProfiles}}

\* the configuration file: absent, unreadable, malformed, or a document
Files ==
    {[kind |-> k, doc |-> [profile |-> None]] :
        k \in {"absent", "unreadable", "malformed"}}
    \cup {[kind |-> "ok", doc |-> d] : d \in ConfigDocs}

----------------------------------------------------------------------------
(* SpecConfig: the resolution of the configuration, by Config::new and by  *)
(* the first three statements of main.                                     *)

\* exit status of a process that clap ends with a usage error
UsageErrorStatus == 2

InitConfig ==
    /\ pc \in {"Config::new", "main"}
    /\ argv \in Argvs
    /\ file \in Files
    /\ args = None
    /\ profile_conf = None
    /\ conf = None
    /\ child = NoChild
    /\ notifications = <<>>
    /\ exit_status = None
    /\ stderr = <<>>
    /\ call = NoCall
    /\ ret = None

\* Config::new with a missing configuration treated as fatal
ConfigNewRequiringFile ==
    /\ pc = "Config::new"
    /\ LET toml_config == read_config_file(file)
           parsed == try_parse_from(argv)
       IN  IF parsed.some /\ toml_config.some /\ toml_config.v.profile.some
                /\ toml_config.v.profile.v # <<>>
           THEN /\ args' = parsed
                /\ profile_conf' = Some(new_from_profile(parsed.v, toml_config))
                /\ conf' = Some(new_from(parsed.v, toml_config))
                /\ stderr' = stderr
                /\ exit_status' = exit_status
                /\ pc' = "resolved"
           ELSE /\ exit_status' = Some(1)
                /\ stderr' = stderr
                /\ pc' = "exited"
                /\ UNCHANGED <<args, profile_conf, conf>>
    /\ UNCHANGED <<argv, file, child, notifications, call, ret>>

\* Config::new: the configuration file is read, the command line is parsed
\* (a usage error ends the process) and the two are merged by new_from
ConfigNew ==
    /\ pc = "Config::new"
    /\ LET toml_config == read_config_file(file)
           parsed == try_parse_from(argv)
       IN  IF parsed.some
           THEN /\ args' = parsed
                /\ profile_conf' = Some(new_from_profile(parsed.v, toml_config))
                /\ conf' = Some(new_from(parsed.v, toml_config))
                /\ stderr' = stderr \o read_config_file_errors(file)
                                    \o new_from_profile_errors(parsed.v, toml_config)
                                    \o override_errors(parsed.v)
                /\ exit_status' = exit_status
                /\ pc' = "resolved"
           ELSE /\ exit_status' = Some(UsageErrorStatus)
                /\ stderr' = stderr \o read_config_file_errors(file)
                                    \o <<"usage">>
                /\ pc' = "exited"
                /\ UNCHANGED <<args, profile_conf, conf>>
    /\ UNCHANGED <<argv, file, child, notifications, call, ret>>

\* main, line 83: Args::parse()
ArgsParse ==
    /\ pc = "main"
    /\ LET parsed == try_parse_from(argv)
       IN  IF parsed.some
           THEN /\ args' = parsed
                /\ pc' = "get_config"
                /\ UNCHANGED <<exit_status, stderr>>
           ELSE /\ exit_status' = Some(UsageErrorStatus)
                /\ stderr' = Append(stderr, "usage")
                /\ pc' = "exited"
                /\ args' = args
    /\ UNCHANGED <<argv, file, profile_conf, conf, child, notifications,
                   call, ret>>

\* main, line 84: config::get_config(args.profile)
GetConfig ==
    /\ pc = "get_config"
    /\ conf' = Some(get_config(args.v.profile, file))
    /\ profile_conf' = conf'
    /\ stderr' = stderr \o get_config_errors(args.v.profile, file)
    /\ pc' = "update_conf"
    /\ UNCHANGED <<argv, file, args, child, notifications, exit_status,
                   call, ret>>

\* main, line 86: update_conf_from_args(&mut conf, &args)
UpdateConfFromArgs ==
    /\ pc = "update_conf"
    /\ conf' = Some(update_conf_from_args(conf.v, args.v))
    /\ stderr' = stderr \o override_errors(args.v)
    /\ pc' = "spawn"
    /\ UNCHANGED <<argv, file, args, profile_conf, child, notifications,
                   exit_status, call, ret>>

NextConfig ==
    \/ ConfigNew
    \/ ArgsParse
    \/ GetConfig
    \/ UpdateConfFromArgs

SpecConfig == InitConfig /\ [][NextConfig]_vars

----------------------------------------------------------------------------
(* Configuration resolution (C4, C5, C8) *)

OptionTokens ==
    {f_p, f_profile, f_t, f_title, f_m, f_message, f_o, f_timeout,
     f_u, f_urgency}

\* the positions 2, 4, ... below i: where the option tokens of a command
\* line stand whose first positional token is at i
OptionPositions(i) == {j \in 2..(i - 1) : j % 2 = 0}

\* the position of the first token of the command on the command line v,
\* Len(v) + 1 when v has no command
FirstPositional(v) ==
    CHOOSE i \in 2..(Len(v) + 1) :
        /\ i % 2 = 0
        /\ \A j \in OptionPositions(i) : v[j] \in OptionTokens
        /\ i = Len(v) + 1 \/ v[i] \notin OptionTokens

\* the command vector given on the command line v
CommandOf(v) == SubSeq(v, FirstPositional(v), Len(v))

\* the value given on the command line v for the option spelled as one of
\* the tokens F, None when that option is not given
Override(v, F) ==
    IF \E j \in OptionPositions(FirstPositional(v)) : v[j] \in F
    THEN Some(v[(CHOOSE j \in OptionPositions(FirstPositional(v)) : v[j] \in F) + 1])
    ELSE None

\* the configuration has been resolved: Config::new has returned, or main
\* has applied update_conf_from_args
Resolved == pc \in {"resolved", "spawn"}

\* C4: resolution is field-wise override-wins: each of title, message,
\* timeout and urgency of the resolved Config is the (parsed) command-line
\* override when that option is given and the selected profile's value
\* otherwise.
TheoremC4 ==
    Resolved =>
        LET c == conf.v
            p == profile_conf.v
            title == Override(argv, {f_t, f_title})
            message == Override(argv, {f_m, f_message})
            timeout == Override(argv, {f_o, f_timeout})
            urgency == Override(argv, {f_u, f_urgency})
        IN  /\ c.title = IF title.some THEN title.v ELSE p.title
            /\ c.message = IF message.some THEN message.v ELSE p.message
            /\ c.timeout = IF timeout.some THEN TimeoutOf(timeout.v)
                           ELSE p.timeout
            /\ c.urgency = IF urgency.some THEN UrgencyOf(urgency.v)
                           ELSE p.urgency

\* Config::new has resolved `-p test -u low` against a profile "test" with
\* urgency critical and timeout 5000: urgency is the override, the other
\* three fields are the profile's
WitnessC4 ==
    /\ pc = "resolved"
    /\ Override(argv, {f_u, f_urgency}) = Some(s_low)
    /\ Override(argv, {f_t, f_title}) = None
    /\ Override(argv, {f_m, f_message}) = None
    /\ Override(argv, {f_o, f_timeout}) = None
    /\ profile_conf.v.urgency = UrgencyCritical
    /\ profile_conf.v.title = s_title
    /\ conf.v.urgency = UrgencyLow
    /\ conf.v.timeout = Milliseconds(<<5,0,0,0>>)
    /\ conf.v.title = s_title
    /\ conf.v.message = s_message

\* C5: the resolved command is exactly the command vector of the command
\* line, whatever the selected profile declares, and a command line without
\* a command is rejected instead of resolved.
TheoremC5 ==
    /\ pc = "resolved" =>
          /\ conf.v.command = CommandOf(argv)
          /\ conf.v.command # <<>>
    /\ pc \in {"get_config", "update_conf", "spawn"} =>
          /\ args.v.command = CommandOf(argv)
          /\ args.v.command # <<>>
    /\ (CommandOf(argv) = <<>> /\ pc \notin {"Config::new", "main"}) =>
          /\ pc = "exited"
          /\ exit_status = Some(UsageErrorStatus)
          /\ conf = None

\* Config::new has resolved the command `fake-cmd --option yes` while the
\* selected profile declares a command of its own
WitnessC5 ==
    /\ pc = "resolved"
    /\ profile_conf.v.command = <<s_echo, <<"h","e","l","l","o">> >>
    /\ conf.v.command = <<s_fake_cmd, s_option, s_yes>>

\* the configuration file is absent, unreadable or malformed, or declares
\* no profile
NoProfiles ==
    \/ file.kind \in {"absent", "unreadable", "malformed"}
    \/ ~file.doc.profile.some
    \/ file.doc.profile.v = <<>>

----------------------------------------------------------------------------
(* Formatting of the notification body *)

RECURSIVE nat_to_string(_)
\* the decimal notation of a natural number
nat_to_string(n) ==
    IF n < 10 THEN <<DecimalChars[n + 1]>>
    ELSE Append(nat_to_string(n \div 10), DecimalChars[(n % 10) + 1])

\* i32 Display
to_string(n) == IF n < 0 THEN <<"-">> \o nat_to_string(0 - n) ELSE nat_to_string(n)

\* one item of humantime's output: nothing for zero, otherwise the value
\* and its unit, after a space unless it is the first item
item(out, unit, value) ==
    IF value = 0 THEN out
    ELSE (IF out = <<>> THEN <<>> ELSE Append(out, " "))
         \o nat_to_string(value) \o unit

\* humantime::format_duration of a whole number of seconds
format_duration(secs) ==
    IF secs = 0 THEN <<"0","s">>
    ELSE LET years == secs \div 31557600
             ydays == secs % 31557600
             months == ydays \div 2630016
             mdays == ydays % 2630016
             days == mdays \div 86400
             day_secs == mdays % 86400
             hours == day_secs \div 3600
             minutes == (day_secs % 3600) \div 60
             seconds == day_secs % 60
             o1 == item(<<>>, IF years = 1 THEN <<"y","e","a","r">>
                              ELSE <<"y","e","a","r","s">>, years)
             o2 == item(o1, IF months = 1 THEN <<"m","o","n","t","h">>
                            ELSE <<"m","o","n","t","h","s">>, months)
             o3 == item(o2, IF days = 1 THEN <<"d","a","y">>
                            ELSE <<"d","a","y","s">>, days)
             o4 == item(o3, <<"h">>, hours)
             o5 == item(o4, <<"m">>, minutes)
         IN  item(o5, <<"s">>, seconds)

\* the body send_notification builds for an exit code and a duration
message_body(c, code, secs) ==
    c.message \o <<"\n">>
    \o <<"R","e","s","u","l","t",":"," ">> \o to_string(code) \o <<"\n">>
    \o <<"C","o","m","p","l","e","t","e","d"," ","i","n"," ">>
    \o format_duration(secs)

----------------------------------------------------------------------------
(* Spec: one run of main *)

MaxExitCode == 2

\* exit codes a child can end with
ExitCodes == 0..MaxExitCode

\* wall-clock run times of the child, in milliseconds
ElapsedMillis == {0, 999, 1000, 125400}

\* exit status of a process that returns Ok(()) from main
SuccessStatus == 0

\* exit status of a process that panics
PanicStatus == 101

RunArgvs ==
    ArgvsOf({<<>>, <<f_p, s_test>>},
            {<<>>, <<f_t, s_unit_test>>},
            {<<>>},
            {<<>>, <<f_o, s_soon>>},
            {<<>>, <<f_u, s_low>>},
            {<<>>, <<s_sleep, s_1>>, <<s_fake_cmd, s_option, s_yes>>})

Init ==
    /\ pc = "main"
    /\ argv \in RunArgvs
    /\ file \in Files
    /\ args = None
    /\ profile_conf = None
    /\ conf = None
    /\ child = NoChild
    /\ notifications = <<>>
    /\ exit_status = None
    /\ stderr = <<>>
    /\ call = NoCall
    /\ ret = None

\* the spawn with its error swallowed: the run ends as a success
SpawnSwallowingError ==
    /\ pc = "spawn"
    /\ \E spawned \in BOOLEAN :
          IF spawned
          THEN /\ child' = [state |-> "running", command |-> args.v.command]
               /\ pc' = "wait"
               /\ UNCHANGED <<exit_status, stderr>>
          ELSE /\ child' = [state |-> "spawn_failed", command |-> args.v.command]
               /\ exit_status' = Some(SuccessStatus)
               /\ stderr' = stderr
               /\ pc' = "exited"
    /\ UNCHANGED <<argv, file, args, profile_conf, conf, notifications,
                   call, ret>>

\* main, lines 88-93: Command::new(cmd[0]).args(&cmd[1..]).spawn().expect(..)
\* The operating system starts the child or fails to; expect panics on a
\* failure.
Spawn ==
    /\ pc = "spawn"
    /\ \E spawned \in BOOLEAN :
          IF spawned
          THEN /\ child' = [state |-> "running", command |-> args.v.command]
               /\ pc' = "wait"
               /\ UNCHANGED <<exit_status, stderr>>
          ELSE /\ child' = [state |-> "spawn_failed", command |-> args.v.command]
               /\ exit_status' = Some(PanicStatus)
               /\ stderr' = Append(stderr, "Error creating child process")
               /\ pc' = "exited"
    /\ UNCHANGED <<argv, file, args, profile_conf, conf, notifications,
                   call, ret>>

\* main, lines 95-97: child.wait().expect(..), then the elapsed time cut to
\* whole seconds.  The child exits with a code or is ended by a signal;
\* expect panics when the wait itself fails.
Wait ==
    /\ pc = "wait"
    /\ \/ \E code \in ExitCodes, ms \in ElapsedMillis :
             /\ child' = [state |-> "exited", command |-> child.command,
                          code |-> code, elapsed_sec |-> ms \div 1000]
             /\ pc' = "send_notification"
             /\ UNCHANGED <<exit_status, stderr>>
       \/ \E ms \in ElapsedMillis :
             /\ child' = [state |-> "signaled", command |-> child.command,
                          elapsed_sec |-> ms \div 1000]
             /\ pc' = "send_notification"
             /\ UNCHANGED <<exit_status, stderr>>
       \/ /\ child' = [state |-> "wait_failed", command |-> child.command]
          /\ exit_status' = Some(PanicStatus)
          /\ stderr' = Append(stderr, "Error waiting on child process")
          /\ pc' = "exited"
    /\ UNCHANGED <<argv, file, args, profile_conf, conf, notifications,
                   call, ret>>

\* send_notification: status.code().unwrap() panics when the child was
\* ended by a signal, before the notification is built; otherwise the
\* notification is handed to the transport, which shows it or fails, and
\* either result is only printed
SendNotification ==
    /\ pc = "send_notification"
    /\ IF child.state = "signaled"
       THEN /\ exit_status' = Some(PanicStatus)
            /\ stderr' = Append(stderr, "called Option::unwrap() on a None value")
            /\ pc' = "exited"
            /\ UNCHANGED notifications
       ELSE /\ \E shown \in BOOLEAN :
                  notifications' = Append(notifications,
                      [summary |-> conf.v.title,
                       body    |-> message_body(conf.v, child.code,
                                                child.elapsed_sec),
                       timeout |-> conf.v.timeout,
                       urgency |-> conf.v.urgency,
                       appname |-> s_notify_complete,
                       shown   |-> shown])
            /\ pc' = "return"
            /\ UNCHANGED <<exit_status, stderr>>
    /\ UNCHANGED <<argv, file, args, profile_conf, conf, child, call, ret>>

\* main, line 101: Ok(())
Return ==
    /\ pc = "return"
    /\ exit_status' = Some(SuccessStatus)
    /\ pc' = "exited"
    /\ UNCHANGED <<argv, file, args, profile_conf, conf, child, notifications,
                   stderr, call, ret>>

Next ==
    \/ ArgsParse
    \/ GetConfig
    \/ UpdateConfFromArgs
    \/ Spawn
    \/ Wait
    \/ SendNotification
    \/ Return

Spec == Init /\ [][Next]_vars

----------------------------------------------------------------------------
(* The run's exit status and its notification (C1, C2, C3) *)

\* C1 as stated: once the child has been spawned and has terminated, the
\* run's exit status is the child's exit code when it exited normally, and
\* 1 when it was ended by a signal.
ClaimC1 ==
    (pc = "exited" /\ child.state \in {"exited", "signaled"}) =>
        exit_status = Some(IF child.state = "exited" THEN child.code ELSE 1)

\* C2 as stated: when the child is ended by a signal the run does not
\* abort, and the notification has been dispatched by the time the run
\* ends.
ClaimC2 ==
    (pc = "exited" /\ child.state = "signaled") =>
        /\ Len(notifications) = 1
        /\ exit_status # Some(PanicStatus)

\* C3: when the spawn fails the run ends with a failure status, and no
\* notification is composed or dispatched in that run.
TheoremC3 ==
    child.state = "spawn_failed" =>
        /\ pc = "exited"
        /\ exit_status.some
        /\ exit_status.v # 0
        /\ notifications = <<>>

\* the spawn of the command `sleep 1` has failed
WitnessC3 ==
    /\ child.state = "spawn_failed"
    /\ child.command = <<s_sleep, s_1>>
    /\ pc = "exited"

----------------------------------------------------------------------------
(* The run as a state machine (C11) *)

\* the spawn succeeded: the child was started
SpawnSucceeded == child.state \in {"running", "exited", "signaled", "wait_failed"}

\* NotificationSent and Done: the notification was dispatched, once, and
\* main returned
SentAndDone ==
    /\ Len(notifications) = 1
    /\ exit_status = Some(SuccessStatus)

\* C11 as stated, for a run whose command line is accepted: the
\* notification is dispatched at most once and only after the child has
\* terminated, and a run that has ended either was aborted because the
\* spawn failed or has passed NotificationSent and reached Done; so no run
\* whose spawn succeeded ends anywhere but in Done.
ClaimC11 ==
    /\ Len(notifications) <= 1
    /\ notifications # <<>> => child.state \in {"exited", "signaled"}
    /\ (pc = "exited" /\ args.some) =>
          \/ child.state = "spawn_failed" /\ notifications = <<>>
          \/ SpawnSucceeded /\ SentAndDone

====
